---- MODULE Spec2Model ----
(***************************************************************************)
(* Token lifecycle of examples/agentcore/agent: McpAuthHelper (the         *)
(* authentication client holding the current TokenResponse), the           *)
(* TokenManager on top of it (lock, stop event, background refresh         *)
(* worker, refresh callback), the SessionManager around the TokenManager   *)
(* and the SecureCredentialCache.  Caller threads and worker threads are   *)
(* processes; a provider round trip (initiate_auth) is a point where a     *)
(* process waits and other processes run.                                  *)
(*                                                                         *)
(* Specifications: Spec (caller threads on one TokenManager), FairSpec     *)
(* (the worker and its stop, with scheduling fairness), SpecSession (one   *)
(* caller using a SessionManager), SpecAuth (direct calls of               *)
(* McpAuthHelper), SpecCache (one caller of a SecureCredentialCache and    *)
(* its cleanup thread), SpecCacheShared (two callers of it), SpecGlobal    *)
(* (the process-wide cache of get_global_cache).                           *)
(***************************************************************************)
EXTENDS Integers, Sequences, FiniteSets, TLC

\* ---------------------------------------------------------------- bounds
MaxTime == 1
MaxIssued == 2
MaxWorkers == 2
MaxAccess == 2
MaxInstances == 2

\* ------------------------------------------------------ program constants
refresh_buffer_seconds == 300
DefaultExpiresIn == 3600

\* caller threads and the Thread objects _start_auto_refresh may create
Threads == {1, 2}
Workers == 101..(100 + MaxWorkers)
Procs == Threads \cup Workers

None == [none |-> TRUE]

\* values of ExpiresIn a provider response may carry (-1: key absent)
ExpiresInChoices == {0, 301}

\* ------------------------------------------------------------- datetimes
\* datetime.now(UTC) is timezone-aware, datetime.utcnow() is naive.
NowAware(n) == [t |-> n, aware |-> TRUE]
UtcNow(n) == [t |-> n, aware |-> FALSE]
PlusSeconds(d, s) == [t |-> d.t + s, aware |-> d.aware]
MinusSeconds(d, s) == [t |-> d.t - s, aware |-> d.aware]
\* a >= b on datetimes: Python raises TypeError when exactly one is aware
DatetimeGE(a, b) ==
    IF a.aware # b.aware THEN "TypeError"
    ELSE IF a.t >= b.t THEN "True" ELSE "False"

\* ---------------------------------------------------------- TokenResponse
TokenResponse(access, refresh, expires_in, token_type, n) ==
    [access_token |-> access,
     refresh_token |-> refresh,
     expires_in |-> expires_in,
     token_type |-> token_type,
     expires_at |-> IF expires_in # 0
                    THEN PlusSeconds(NowAware(n), expires_in)
                    ELSE None]

\* TokenManager._needs_refresh: "True", "False" or "TypeError"
needs_refresh(token, n) ==
    IF token.expires_at = None THEN "False"
    ELSE DatetimeGE(UtcNow(n),
                    MinusSeconds(token.expires_at, refresh_buffer_seconds))

\* ---------------------------------------------------- provider responses
\* kind: "AuthenticationResult" | "Challenge" | "ClientError" | "Exception"
\*       | "Unexpected"; code: the challenge name or the error code.
Response(kind, code, rt, ei, tt) ==
    [kind |-> kind, code |-> code, RefreshToken |-> rt, ExpiresIn |-> ei,
     TokenType |-> tt]

AuthResults ==
    {Response("AuthenticationResult", "", rt, ei, tt) :
        rt \in BOOLEAN, ei \in ExpiresInChoices, tt \in {""}}

ErrorCodes == {"NotAuthorizedException", "UserNotFoundException",
               "ResourceNotFoundException", "InvalidParameterException",
               "InvalidPasswordException", "TooManyRequestsException"}

Failures ==
    {Response("ClientError", c, FALSE, -1, "") : c \in ErrorCodes}
    \cup {Response("Exception", "", FALSE, -1, ""),
          Response("Unexpected", "", FALSE, -1, "")}

Challenges ==
    {Response("Challenge", c, FALSE, -1, "") :
        c \in {"NEW_PASSWORD_REQUIRED", "SMS_MFA"}}

Get(v, absent, default) == IF v = absent THEN default ELSE v

Outcome(kind, token) == [kind |-> kind, token |-> token]

\* ------------------------------------------------------- McpAuthHelper
\* is_token_expired: "True", "False" or "TypeError"
is_token_expired(cur, n) ==
    IF cur = None \/ cur.expires_at = None THEN "True"
    ELSE DatetimeGE(UtcNow(n), cur.expires_at)

\* get_diagnostic_info reads is_token_expired() when a current token exists
get_diagnostic_info(cur, n) ==
    IF cur # None /\ is_token_expired(cur, n) = "TypeError"
    THEN "TypeError" ELSE "ok"

\* the handler `except Exception` of get_bearer_token and refresh_token:
\* it collects the diagnostic info, then raises AuthenticationError; an
\* exception of get_diagnostic_info leaves the handler instead
UnexpectedError(cur, n) ==
    IF get_diagnostic_info(cur, n) = "TypeError"
    THEN Outcome("TypeError", None)
    ELSE Outcome("AuthenticationError", None)

\* a plausible slip: a login that keeps the token the client already holds
StoreLoginKeep(cur, new) == IF cur # None THEN cur ELSE new

\* self._current_token = TokenResponse(...) of a successful login
StoreLogin(cur, new) == new

\* _handle_new_password_required on the response resp2 to the challenge
\* answer; every failure leaves it as AuthenticationError
handle_new_password_required(resp2, cur, n, id) ==
    IF resp2.kind = "AuthenticationResult"
    THEN Outcome("ok",
                 StoreLogin(cur,
                     TokenResponse(id, IF resp2.RefreshToken THEN id ELSE 0,
                                   Get(resp2.ExpiresIn, -1, DefaultExpiresIn),
                                   Get(resp2.TokenType, "", "Bearer"), n)))
    ELSE Outcome("AuthenticationError", None)

\* get_bearer_token on the response resp to initiate_auth (and resp2 to
\* respond_to_auth_challenge when a NEW_PASSWORD_REQUIRED challenge came),
\* cur the token the client holds.  An AuthenticationError raised inside the
\* try block (unsupported challenge, unexpected format, failed password
\* change, no provider client) is caught by `except Exception`
get_bearer_token(resp, resp2, cur, n, id) ==
    CASE resp.kind = "AuthenticationResult" ->
            Outcome("ok",
                    StoreLogin(cur,
                        TokenResponse(id, IF resp.RefreshToken THEN id ELSE 0,
                                      Get(resp.ExpiresIn, -1, DefaultExpiresIn),
                                      Get(resp.TokenType, "", "Bearer"), n)))
      [] resp.kind = "Challenge" ->
            IF resp.code = "NEW_PASSWORD_REQUIRED"
            THEN LET out == handle_new_password_required(resp2, cur, n, id)
                 IN IF out.kind = "ok" THEN out ELSE UnexpectedError(cur, n)
            ELSE UnexpectedError(cur, n)
      [] resp.kind = "ClientError" ->
            IF resp.code \in {"NotAuthorizedException", "UserNotFoundException"}
            THEN Outcome("InvalidCredentialsError", None)
            ELSE IF resp.code \in {"ResourceNotFoundException",
                                   "InvalidParameterException"}
            THEN Outcome("ConfigurationError", None)
            ELSE Outcome("AuthenticationError", None)
      [] OTHER -> UnexpectedError(cur, n)

\* refresh_token(rt, client_id) on the response resp, cur the current token
refresh_token(resp, cur, rt, n, id) ==
    CASE resp.kind = "AuthenticationResult" ->
            LET ei == Get(resp.ExpiresIn, -1, DefaultExpiresIn) IN
            IF cur # None
            THEN Outcome("ok",
                         [cur EXCEPT !.access_token = id,
                                     !.expires_in = ei,
                                     !.expires_at = PlusSeconds(NowAware(n), ei)])
            ELSE Outcome("ok",
                         TokenResponse(id, rt, ei,
                                       Get(resp.TokenType, "", "Bearer"), n))
      [] resp.kind = "ClientError" ->
            IF resp.code = "NotAuthorizedException"
            THEN Outcome("TokenExpiredError", None)
            ELSE IF resp.code = "ResourceNotFoundException"
            THEN Outcome("ConfigurationError", None)
            ELSE Outcome("AuthenticationError", None)
      [] OTHER -> UnexpectedError(cur, n)

\* ------------------------------------------------------------------ state
VARIABLES
    now,               \* the clock, in seconds
    current_token,     \* McpAuthHelper._current_token (None or a token)
    issued,            \* tokens the provider has issued; names the next one
    auto_refresh,      \* TokenManager.auto_refresh
    token_lock,        \* TokenManager._token_lock: 0 or the holding process
    stop_refresh,      \* TokenManager._stop_refresh (the event is set)
    refresh_thread,    \* TokenManager._refresh_thread: 0 or a worker
    refresh_callback,  \* TokenManager._refresh_callback is registered
    pc,                \* position of every process
    call,              \* the call a process is in: locals and what it did
    result,            \* what the last finished call of a process gave
    cleaned,           \* a cleanup_tokens() returned and no token operation
                       \* was called since
    session_active,    \* SessionManager._session_active
    scope,             \* the use of the SessionManager: where its caller is
                       \* and what the last __exit__ did
    helper,            \* a direct caller of McpAuthHelper: the call it is in
                       \* and what its last call saw and gave
    cache,             \* SecureCredentialCache._cache: key -> entry or None
    cache_call,        \* the cache operation a caller is in or has finished
    global_cache,      \* _global_cache: 0 (None) or an instance
    cache_lock,        \* _cache_lock: 0 or the holding thread
    instances,         \* every SecureCredentialCache constructed so far
    global_call        \* the global-cache call a thread is in, and the
                       \* instance its last get_global_cache() returned

managerVars == <<now, current_token, issued, auto_refresh, token_lock,
                 stop_refresh, refresh_thread, refresh_callback, pc, call,
                 result, cleaned>>
sessionVars == <<session_active, scope>>
cacheVars == <<cache, cache_call>>
globalVars == <<global_cache, cache_lock, instances, global_call>>

vars == <<managerVars, sessionVars, helper, cacheVars, globalVars>>

TokenOps == {"get_valid_token", "refresh_if_needed", "force_refresh"}
StopOps == {"stop_auto_refresh", "cleanup_tokens"}

\* The record of a call: the locals of the method (nested: inside the
\* refresh_if_needed that get_valid_token calls; pending: the round trip
\* waited for; rt: the refresh token passed; joined: the thread joined) and
\* what the call saw and did (overlap: it ran while another thread was in
\* get_valid_token; had_token, due: at the read under the lock; logins,
\* refreshes: invocations of
\* get_bearer_token and refresh_token; raised: the last error the helper
\* raised; expired: TokenExpiredError was caught; cbs, cb_arg: callback
\* invocations and the last argument; started: it started a worker)
NewCall(op) ==
    [op |-> op, nested |-> FALSE, pending |-> "none", rt |-> 0, joined |-> 0,
     overlap |-> FALSE, had_token |-> "unread", due |-> "na",
     logins |-> 0, refreshes |-> 0, raised |-> "none", expired |-> FALSE,
     cbs |-> 0, cb_arg |-> 0, started |-> FALSE]

NoResult == [kind |-> "none", value |-> 0]

\* a thread test that never sees a live thread
is_aliveNever(w) == FALSE

\* `self._refresh_thread and self._refresh_thread.is_alive()`
is_alive(w) == w # 0 /\ pc[w] \notin {"unstarted", "dead"}

\* the refresh-due condition of the specification, for a token with expiry
Due(token, n) ==
    IF token.expires_at = None THEN "unset"
    ELSE IF n >= token.expires_at.t - refresh_buffer_seconds THEN "yes"
    ELSE "no"

\* ------------------------------------- a direct caller of McpAuthHelper
Username == "user"
Passwords == {"pw1", "pw2"}

\* The record of a helper call: pc (idle, or the provider call waited
\* for), op, the arguments password and rt, prev (the token held when the
\* call began), challenge (the challenge name received), sent (the
\* ChallengeResponses submitted), resp (the last provider response), result;
\* and across calls: client (_cognito_client is constructed) and at (the
\* time the current token was last stored or refreshed)
NoHelperCall ==
    [pc |-> "idle", op |-> "none", password |-> "", rt |-> 0, prev |-> None,
     challenge |-> "", sent |-> None, resp |-> None, result |-> NoResult,
     client |-> FALSE, at |-> 0]

\* ------------------------------------------------- SecureCredentialCache
Keys == {"k1", "k2"}
CacheThreads == {1, 2}
\* the caller of the single-caller specification
SingleCaller == {1}
default_ttl_minutes == 30
\* values of the argument ttl_minutes (-1: None, the default)
TtlChoices == {-1, 0, 1}

\* timedelta(minutes=m) in seconds
Minutes(m) == m * 60

\* the record of a cache call: pc ("idle", or "store": cache_credentials
\* has computed expires_at and waits for the lock), the arguments, result
\* the SecureCredentialCache objects of the process, in construction order
Instances == 1..MaxInstances
GlobalThreads == {1, 2}

\* an object not constructed yet
NoInstance ==
    [created |-> FALSE, shutdown_event |-> FALSE,
     cleanup_thread |-> "unstarted", entries |-> {}]

\* SecureCredentialCache.__init__: empty map, event clear, cleanup thread
\* started
SecureCredentialCache ==
    [created |-> TRUE, shutdown_event |-> FALSE,
     cleanup_thread |-> "running", entries |-> {}]

NoGlobalCall == [pc |-> "idle", op |-> "none", returned |-> 0]

NoCacheResult == [kind |-> "none", username |-> "", password |-> ""]
NoCacheCall ==
    [pc |-> "idle", op |-> "none", key |-> "", username |-> "",
     password |-> "", ttl_minutes |-> -1, expires_at |-> None,
     result |-> NoCacheResult]

Init ==
    /\ now = 0
    /\ current_token = None
    /\ issued = 0
    /\ auto_refresh \in BOOLEAN
    /\ token_lock = 0
    /\ stop_refresh = FALSE
    /\ refresh_thread = 0
    /\ refresh_callback = FALSE
    /\ pc = [p \in Procs |-> IF p \in Threads THEN "idle" ELSE "unstarted"]
    /\ call = [p \in Procs |-> NewCall("none")]
    /\ result = [p \in Procs |-> NoResult]
    /\ cleaned = FALSE
    /\ session_active = FALSE
    /\ scope = [where |-> "new", raised |-> FALSE, cleanups |-> 0]
    /\ helper = NoHelperCall
    /\ cache = [k \in Keys |-> None]
    /\ cache_call = [t \in CacheThreads |-> NoCacheCall]
    /\ global_cache = 0
    /\ cache_lock = 0
    /\ instances = [i \in Instances |-> NoInstance]
    /\ global_call = [t \in GlobalThreads |-> NoGlobalCall]

\* where process p is after its call ended (return or raise): a worker
\* goes on to its wait(60), a caller thread is idle again
Done(p) == IF p \in Workers THEN "w_loop" ELSE "idle"

Res(kind, value) == [kind |-> kind, value |-> value]

\* the other caller threads inside get_valid_token
InGetValidToken(t) ==
    {u \in Threads \ {t} : pc[u] # "idle" /\ call[u].op = "get_valid_token"}

\* a caller thread calls a TokenManager method
Call(t, op) ==
    /\ pc[t] = "idle"
    /\ op = "get_valid_token" =>
          Cardinality({w \in Workers : pc[w] = "unstarted"}) >
          Cardinality({u \in Threads : pc[u] # "idle"
                                      /\ call[u].op = "get_valid_token"})
    /\ pc' = [pc EXCEPT ![t] = IF op \in TokenOps THEN "lock" ELSE "stop"]
    /\ call' = [u \in Procs |->
                  IF u = t
                  THEN [NewCall(op) EXCEPT
                          !.overlap = op = "get_valid_token"
                                      /\ InGetValidToken(t) # {}]
                  ELSE IF op = "get_valid_token" /\ u \in InGetValidToken(t)
                  THEN [call[u] EXCEPT !.overlap = TRUE]
                  ELSE call[u]]
    /\ result' = [result EXCEPT ![t] = NoResult]
    /\ cleaned' = IF op \in TokenOps THEN FALSE ELSE cleaned
    /\ UNCHANGED <<now, current_token, issued, auto_refresh, token_lock,
                   stop_refresh, refresh_thread, refresh_callback>>
    /\ UNCHANGED <<sessionVars, helper, cacheVars, globalVars>>

\* set_refresh_callback
set_refresh_callback(t) ==
    /\ pc[t] = "idle"
    /\ ~refresh_callback
    /\ refresh_callback' = TRUE
    /\ UNCHANGED <<now, current_token, issued, auto_refresh, token_lock,
                   stop_refresh, refresh_thread, pc, call, result, cleaned>>
    /\ UNCHANGED <<sessionVars, helper, cacheVars, globalVars>>

\* a lock that lets every thread in
UnlockedAlways(lock) == TRUE

\* threading.Lock.acquire passes when no thread holds the lock
Unlocked(lock) == lock = 0

\* `with self._token_lock:` a threading.Lock, not re-entrant
Acquire(p) ==
    /\ pc[p] = "lock"
    /\ Unlocked(token_lock)
    /\ token_lock' = p
    /\ pc' = [pc EXCEPT ![p] = "body"]
    /\ UNCHANGED <<now, current_token, issued, auto_refresh, stop_refresh,
                   refresh_thread, refresh_callback, call, result, cleaned>>
    /\ UNCHANGED <<sessionVars, helper, cacheVars, globalVars>>

\* the critical section of get_valid_token / refresh_if_needed up to its
\* return, raise, provider round trip or nested call; leaving the `with`
\* block releases the lock
Body(p) ==
    /\ pc[p] = "body"
    /\ LET c == call[p]
           cur == current_token
           isGvt == c.op = "get_valid_token" /\ ~c.nested
       IN
       IF cur = None
       THEN LET c1 == [c EXCEPT !.had_token = "none"] IN
            IF isGvt
            THEN \* no token: get_bearer_token(...)
                 /\ pc' = [pc EXCEPT ![p] = "net"]
                 /\ call' = [call EXCEPT ![p] = [c1 EXCEPT !.pending = "login"]]
                 /\ UNCHANGED <<result, token_lock>>
            ELSE \* raise AuthenticationError("No token available for refresh")
                 /\ pc' = [pc EXCEPT ![p] = Done(p)]
                 /\ call' = [call EXCEPT ![p] = c1]
                 /\ result' = [result EXCEPT ![p] = Res("AuthenticationError", 0)]
                 /\ token_lock' = 0
       ELSE LET nr == needs_refresh(cur, now)
                c1 == [c EXCEPT !.had_token = "some", !.due = Due(cur, now)]
            IN
            CASE nr = "TypeError" ->
                    /\ pc' = [pc EXCEPT ![p] = Done(p)]
                    /\ call' = [call EXCEPT ![p] = c1]
                    /\ result' = [result EXCEPT ![p] = Res("TypeError", 0)]
                    /\ token_lock' = 0
              [] nr = "False" ->
                    /\ pc' = [pc EXCEPT ![p] = Done(p)]
                    /\ call' = [call EXCEPT ![p] = c1]
                    /\ result' = [result EXCEPT ![p] = Res("ok", cur.access_token)]
                    /\ token_lock' = 0
              [] nr = "True" /\ isGvt ->
                    \* return self.refresh_if_needed(), the lock still held
                    /\ pc' = [pc EXCEPT ![p] = "lock"]
                    /\ call' = [call EXCEPT ![p] = [c1 EXCEPT !.nested = TRUE]]
                    /\ UNCHANGED <<result, token_lock>>
              [] nr = "True" /\ ~isGvt ->
                    /\ pc' = [pc EXCEPT ![p] = "net"]
                    /\ call' = [call EXCEPT ![p] =
                                 [c1 EXCEPT !.pending =
                                               IF cur.refresh_token # 0
                                               THEN "refresh" ELSE "relogin",
                                            !.rt = cur.refresh_token]]
                    /\ UNCHANGED <<result, token_lock>>
    /\ UNCHANGED <<now, current_token, issued, auto_refresh, stop_refresh,
                   refresh_thread, refresh_callback, cleaned>>
    /\ UNCHANGED <<sessionVars, helper, cacheVars, globalVars>>

\* a plausible slip: the manager wraps what the helper raised
PropagatedWrapped(kind) == "AuthenticationError"

\* what a manager method raises to its caller when the helper raised kind
\* and no handler of the method caught it: the same exception
Propagated(kind) == kind

\* what the provider may answer: it issues at most MaxIssued tokens
Offered ==
    IF issued < MaxIssued THEN AuthResults \cup Challenges \cup Failures
    ELSE Challenges \cup Failures

Offered2(resp) ==
    IF resp.kind = "Challenge" /\ resp.code = "NEW_PASSWORD_REQUIRED"
    THEN (IF issued < MaxIssued THEN AuthResults ELSE {}) \cup Failures
    ELSE {Response("Unexpected", "", FALSE, -1, "")}

\* the provider answers the round trip process p waits for; the rest of the
\* helper method and of the manager method runs: the token is stored or
\* updated, the worker started (get_valid_token), the callback notified
\* (refresh_if_needed), TokenExpiredError caught by a fresh login
Respond(p) ==
    /\ pc[p] = "net"
    /\ \E resp \in Offered : \E resp2 \in Offered2(resp) :
        LET c == call[p]
            id == issued + 1
            isRefresh == c.pending = "refresh"
            out == IF isRefresh
                   THEN refresh_token(resp, current_token, c.rt, now, id)
                   ELSE get_bearer_token(resp, resp2, current_token, now, id)
            c1 == [c EXCEPT !.logins = IF isRefresh THEN @ ELSE @ + 1,
                            !.refreshes = IF isRefresh THEN @ + 1 ELSE @]
            notify == c.pending # "login" /\ refresh_callback
            start == c.pending = "login" /\ auto_refresh
                     /\ ~is_alive(refresh_thread)
            w == CHOOSE x \in Workers : pc[x] = "unstarted"
        IN
        CASE out.kind = "ok" ->
                /\ current_token' = out.token
                /\ issued' = id
                /\ stop_refresh' = IF start THEN FALSE ELSE stop_refresh
                /\ refresh_thread' = IF start THEN w ELSE refresh_thread
                /\ pc' = IF start
                         THEN [pc EXCEPT ![p] = Done(p), ![w] = "w_loop"]
                         ELSE [pc EXCEPT ![p] = Done(p)]
                /\ call' = [call EXCEPT ![p] =
                             [c1 EXCEPT !.pending = "none", !.rt = 0,
                                        !.started = start,
                                        !.cbs = IF notify THEN @ + 1 ELSE @,
                                        !.cb_arg = IF notify THEN id ELSE @]]
                /\ result' = [result EXCEPT ![p] = Res("ok", id)]
                /\ token_lock' = 0
          [] out.kind = "TokenExpiredError" /\ isRefresh ->
                \* except TokenExpiredError: get_bearer_token(...)
                /\ call' = [call EXCEPT ![p] =
                             [c1 EXCEPT !.pending = "fallback",
                                        !.raised = out.kind,
                                        !.expired = TRUE]]
                /\ UNCHANGED <<current_token, issued, stop_refresh,
                               refresh_thread, pc, result, token_lock>>
          [] OTHER ->
                /\ pc' = [pc EXCEPT ![p] = Done(p)]
                /\ call' = [call EXCEPT ![p] =
                             [c1 EXCEPT !.pending = "none", !.rt = 0,
                                        !.raised = out.kind]]
                /\ result' = [result EXCEPT ![p] =
                                Res(Propagated(out.kind), 0)]
                /\ token_lock' = 0
                /\ UNCHANGED <<current_token, issued, stop_refresh,
                               refresh_thread>>
    /\ UNCHANGED <<now, auto_refresh, refresh_callback, cleaned>>
    /\ UNCHANGED <<sessionVars, helper, cacheVars, globalVars>>

\* a plausible slip: a loop that never looks at the stop event
LoopContinuesAlways(stop) == TRUE

\* `while not self._stop_refresh.is_set():`
LoopContinues(stop) == ~stop

\* a plausible slip: no handler around the body of the loop
AfterExceptionUncaught(w) == "dead"

\* `except Exception:` log, self._stop_refresh.wait(60), next iteration
AfterException(w) == "w_loop"

\* _auto_refresh_worker at "w_loop" is in self._stop_refresh.wait(60) or
\* was just started.  The wait returns (event set or time up) and the loop
\* runs up to the next wait, to the call of refresh_if_needed or to its end;
\* an exception of the pass is caught and logged (result[w] keeps it)
auto_refresh_worker(w) ==
    /\ pc[w] = "w_loop"
    /\ IF ~LoopContinues(stop_refresh)
       THEN /\ pc' = [pc EXCEPT ![w] = "dead"]
            /\ UNCHANGED <<call, result>>
       ELSE LET nr == IF current_token = None THEN "False"
                      ELSE needs_refresh(current_token, now)
            IN
            CASE nr = "True" ->
                    /\ pc' = [pc EXCEPT ![w] = "lock"]
                    /\ call' = [call EXCEPT ![w] = NewCall("refresh_if_needed")]
                    /\ result' = [result EXCEPT ![w] = NoResult]
              [] nr = "TypeError" ->
                    /\ pc' = [pc EXCEPT ![w] = AfterException(w)]
                    /\ result' = [result EXCEPT ![w] = Res("TypeError", 0)]
                    /\ UNCHANGED call
              [] OTHER ->
                    /\ result' = [result EXCEPT ![w] = NoResult]
                    /\ UNCHANGED <<pc, call>>
    /\ UNCHANGED <<now, current_token, issued, auto_refresh, token_lock,
                   stop_refresh, refresh_thread, refresh_callback, cleaned>>
    /\ UNCHANGED <<sessionVars, helper, cacheVars, globalVars>>

\* a plausible slip: a cleanup that stops the worker and clears nothing
AfterStopSkipsClear(t) == "idle"

\* where a caller goes after stop_auto_refresh is through
AfterStop(t) == IF call[t].op = "cleanup_tokens" THEN "clear" ELSE "idle"

\* stop_auto_refresh: set the event, then join the thread if it is alive
stop_auto_refresh(t) ==
    /\ pc[t] = "stop"
    /\ stop_refresh' = TRUE
    /\ IF is_alive(refresh_thread)
       THEN /\ pc' = [pc EXCEPT ![t] = "join"]
            /\ call' = [call EXCEPT ![t].joined = refresh_thread]
            /\ UNCHANGED result
       ELSE /\ pc' = [pc EXCEPT ![t] = AfterStop(t)]
            /\ result' = [result EXCEPT ![t] =
                            IF AfterStop(t) = "idle" THEN Res("ok", 0) ELSE @]
            /\ UNCHANGED call
    /\ UNCHANGED <<now, current_token, issued, auto_refresh, token_lock,
                   refresh_thread, refresh_callback, cleaned>>
    /\ UNCHANGED <<sessionVars, helper, cacheVars, globalVars>>

\* join(timeout=5) returns: the thread ended, or the five seconds are up
JoinReturns(t) ==
    /\ pc[t] = "join"
    /\ pc' = [pc EXCEPT ![t] = AfterStop(t)]
    /\ call' = [call EXCEPT ![t].joined = 0]
    /\ result' = [result EXCEPT ![t] =
                    IF AfterStop(t) = "idle" THEN Res("ok", 0) ELSE @]
    /\ UNCHANGED <<now, current_token, issued, auto_refresh, token_lock,
                   stop_refresh, refresh_thread, refresh_callback, cleaned>>
    /\ UNCHANGED <<sessionVars, helper, cacheVars, globalVars>>

\* the end of cleanup_tokens: self.auth_helper.clear_tokens()
clear_tokens(t) ==
    /\ pc[t] = "clear"
    /\ current_token' = None
    /\ pc' = [pc EXCEPT ![t] = "idle"]
    /\ result' = [result EXCEPT ![t] = Res("ok", 0)]
    /\ cleaned' = TRUE
    /\ UNCHANGED <<now, issued, auto_refresh, token_lock, stop_refresh,
                   refresh_thread, refresh_callback, call>>
    /\ UNCHANGED <<sessionVars, helper, cacheVars, globalVars>>

\* a second passes
Tick ==
    /\ now < MaxTime
    /\ now' = now + 1
    /\ UNCHANGED <<current_token, issued, auto_refresh, token_lock,
                   stop_refresh, refresh_thread, refresh_callback, pc, call,
                   result, cleaned>>
    /\ UNCHANGED <<sessionVars, helper, cacheVars, globalVars>>

\* ------------------------------------------------------- SessionManager
\* the caller thread that uses the SessionManager
SessionThreads == {1}

\* a call of a manager method by the caller of the SessionManager, inside
\* or outside the `with` block (not while __exit__ runs)
session_call(t, op) ==
    /\ scope.where # "exit"
    /\ Call(t, op)

\* SessionManager.__enter__
session_enter(t) ==
    /\ pc[t] = "idle"
    /\ scope.where \in {"new", "out"}
    /\ session_active' = TRUE
    /\ scope' = [where |-> "in", raised |-> FALSE, cleanups |-> 0]
    /\ UNCHANGED <<managerVars, helper, cacheVars, globalVars>>

\* a plausible slip: the cleanup placed after the body, not in a handler
ExitCleansUpOnSuccess(raised) == ~raised

\* whether __exit__ calls cleanup_tokens(): it ignores exc_type
ExitCleansUp(raised) == TRUE

\* SessionManager.__exit__ up to its call of cleanup_tokens(); raised: the
\* body of the block raised.  AgentCoreAuthenticatedMcpClient.disconnect
\* calls __exit__(None, None, None) on a manager never entered
session_exit(t, raised) ==
    /\ pc[t] = "idle"
    /\ scope.where \in {"new", "in"}
    /\ session_active' = FALSE
    /\ IF ExitCleansUp(raised)
       THEN /\ pc' = [pc EXCEPT ![t] = "stop"]
            /\ call' = [call EXCEPT ![t] = NewCall("cleanup_tokens")]
            /\ result' = [result EXCEPT ![t] = NoResult]
            /\ scope' = [where |-> "exit", raised |-> raised, cleanups |-> 1]
       ELSE /\ scope' = [where |-> "out", raised |-> raised, cleanups |-> 0]
            /\ UNCHANGED <<pc, call, result>>
    /\ UNCHANGED <<now, current_token, issued, auto_refresh, token_lock,
                   stop_refresh, refresh_thread, refresh_callback, cleaned>>
    /\ UNCHANGED <<helper, cacheVars, globalVars>>

\* cleanup_tokens() returned to __exit__, which returns
session_exit_returns(t) ==
    /\ scope.where = "exit"
    /\ pc[t] = "idle"
    /\ scope' = [scope EXCEPT !.where = "out"]
    /\ UNCHANGED <<managerVars, session_active, helper, cacheVars, globalVars>>

\* ------------------------------------- direct calls of McpAuthHelper
\* values of ExpiresIn and TokenType a provider response may carry
HelperExpiresIn == {-1, 0, 200}
HelperTokenTypes == {"", "JWT"}

HelperAuthResults ==
    {Response("AuthenticationResult", "", rt, ei, tt) :
        rt \in BOOLEAN, ei \in HelperExpiresIn, tt \in HelperTokenTypes}

\* boto3.client(...) raised NoCredentialsError: the property cognito_client
\* raises ConfigurationError inside the try block of the caller
NoCredentials == Response("NoCredentialsError", "", FALSE, -1, "")

\* what the provider may answer to the helper's caller
HelperOffered ==
    (IF issued < MaxIssued THEN HelperAuthResults ELSE {})
    \cup Challenges \cup Failures
    \cup (IF helper.client THEN {} ELSE {NoCredentials})

\* what the provider may answer to the challenge answer
HelperOffered2 ==
    (IF issued < MaxIssued THEN HelperAuthResults ELSE {}) \cup Failures

\* challenge_responses of _handle_new_password_required
ChallengeResponses(username, new_password) ==
    [USERNAME |-> username, NEW_PASSWORD |-> new_password]

\* the helper method returns or raises: out is its outcome on response resp
\* a failed call that drops the token it found
AfterRaiseCleared(cur) == None

\* the except clauses of get_bearer_token and refresh_token raise without
\* assigning _current_token
AfterRaise(cur) == cur

HelperReturns(out, resp) ==
    /\ current_token' = IF out.kind = "ok" THEN out.token
                        ELSE AfterRaise(current_token)
    /\ issued' = IF out.kind = "ok" THEN issued + 1 ELSE issued
    /\ helper' = [helper EXCEPT
                    !.pc = "idle",
                    !.client = resp # NoCredentials,
                    !.resp = resp,
                    !.challenge = IF resp.kind = "Challenge"
                                  THEN resp.code ELSE @,
                    !.at = IF out.kind = "ok" THEN now ELSE @,
                    !.result = IF out.kind = "ok"
                               THEN Res("ok", out.token.access_token)
                               ELSE Res(out.kind, 0)]

\* get_bearer_token(user_pool_id, client_id, username, password) is called
helper_get_bearer_token(pw) ==
    /\ helper.pc = "idle"
    /\ helper' = [helper EXCEPT
                    !.pc = "initiate_auth", !.op = "get_bearer_token",
                    !.password = pw, !.rt = 0, !.prev = current_token,
                    !.challenge = "", !.sent = None, !.resp = None,
                    !.result = NoResult]
    /\ UNCHANGED <<managerVars, sessionVars, cacheVars, globalVars>>

\* initiate_auth(USER_PASSWORD_AUTH) answers (or the client could not be
\* constructed); on NEW_PASSWORD_REQUIRED the challenge answer is sent
initiate_auth ==
    /\ helper.pc = "initiate_auth"
    /\ \E resp \in HelperOffered :
        IF resp.kind = "Challenge" /\ resp.code = "NEW_PASSWORD_REQUIRED"
        THEN /\ helper' = [helper EXCEPT
                             !.pc = "respond_to_auth_challenge",
                             !.client = TRUE,
                             !.resp = resp,
                             !.challenge = resp.code,
                             !.sent = ChallengeResponses(Username,
                                                         helper.password)]
             /\ UNCHANGED <<current_token, issued>>
        ELSE HelperReturns(
                 get_bearer_token(resp, resp, current_token, now, issued + 1),
                 resp)
    /\ UNCHANGED <<now, auto_refresh, token_lock, stop_refresh, refresh_thread,
                   refresh_callback, pc, call, result, cleaned>>
    /\ UNCHANGED <<sessionVars, cacheVars, globalVars>>

\* respond_to_auth_challenge answers
respond_to_auth_challenge ==
    /\ helper.pc = "respond_to_auth_challenge"
    /\ \E resp2 \in HelperOffered2 :
        HelperReturns(
            get_bearer_token(helper.resp, resp2, current_token, now,
                             issued + 1),
            resp2)
    /\ UNCHANGED <<now, auto_refresh, token_lock, stop_refresh, refresh_thread,
                   refresh_callback, pc, call, result, cleaned>>
    /\ UNCHANGED <<sessionVars, cacheVars, globalVars>>

\* refresh_token(refresh_token, client_id) is called with a refresh token
\* of an earlier issuance
helper_refresh_token(rt) ==
    /\ helper.pc = "idle"
    /\ helper' = [helper EXCEPT
                    !.pc = "refresh_auth", !.op = "refresh_token",
                    !.password = "", !.rt = rt, !.prev = current_token,
                    !.challenge = "", !.sent = None, !.resp = None,
                    !.result = NoResult]
    /\ UNCHANGED <<managerVars, sessionVars, cacheVars, globalVars>>

\* initiate_auth(REFRESH_TOKEN_AUTH) answers
refresh_auth ==
    /\ helper.pc = "refresh_auth"
    /\ \E resp \in HelperOffered :
        HelperReturns(
            refresh_token(resp, current_token, helper.rt, now, issued + 1),
            resp)
    /\ UNCHANGED <<now, auto_refresh, token_lock, stop_refresh, refresh_thread,
                   refresh_callback, pc, call, result, cleaned>>
    /\ UNCHANGED <<sessionVars, cacheVars, globalVars>>

\* McpAuthHelper.clear_tokens called directly
helper_clear_tokens ==
    /\ helper.pc = "idle"
    /\ current_token' = None
    /\ helper' = [helper EXCEPT
                    !.op = "clear_tokens", !.password = "", !.rt = 0,
                    !.prev = current_token, !.challenge = "", !.sent = None,
                    !.resp = None, !.result = Res("ok", 0)]
    /\ UNCHANGED <<now, issued, auto_refresh, token_lock, stop_refresh,
                   refresh_thread, refresh_callback, pc, call, result, cleaned>>
    /\ UNCHANGED <<sessionVars, cacheVars, globalVars>>

\* ------------------------------------------- SecureCredentialCache calls
CachedCredential(username, password, cached_at, expires_at) ==
    [username |-> username, password |-> password, cached_at |-> cached_at,
     expires_at |-> expires_at, access_count |-> 0]

\* CachedCredential.is_expired: both datetimes are naive
is_expired(cached, n) == DatetimeGE(UtcNow(n), cached.expires_at) = "True"

\* `timedelta(minutes=ttl_minutes) if ttl_minutes else self.default_ttl`:
\* None and 0 are both falsy
ttl_seconds(ttl_minutes) ==
    IF ttl_minutes # -1 /\ ttl_minutes # 0
    THEN Minutes(ttl_minutes) ELSE Minutes(default_ttl_minutes)

CacheResult(kind, username, password) ==
    [kind |-> kind, username |-> username, password |-> password]

\* CachedCredential.increment_access counting twice
increment_accessTwice(cached) ==
    [cached EXCEPT !.access_count = @ + 2]

\* CachedCredential.increment_access
increment_access(cached) ==
    [cached EXCEPT !.access_count = @ + 1]

\* the store that keeps an entry already cached under the key
ReplaceEntryKeepOld(old, new) == IF old # None THEN old ELSE new

\* `if key in self._cache: self._secure_clear_credential(key)` followed by
\* `self._cache[key] = CachedCredential(...)`: the old entry is deleted
ReplaceEntry(old, new) == new

\* cache_credentials up to `with self._lock:`: ttl and expires_at computed
cache_credentials(t, k, u, p, ttl) ==
    /\ cache_call[t].pc = "idle"
    /\ cache_call' = [cache_call EXCEPT ![t] =
                        [pc |-> "store", op |-> "cache_credentials",
                         key |-> k, username |-> u, password |-> p,
                         ttl_minutes |-> ttl,
                         expires_at |-> PlusSeconds(UtcNow(now),
                                                    ttl_seconds(ttl)),
                         result |-> NoCacheResult]]
    /\ UNCHANGED <<managerVars, sessionVars, helper, cache, globalVars>>

\* cache_credentials under the lock: the entry of the key is replaced
cache_store(t) ==
    /\ cache_call[t].pc = "store"
    /\ LET c == cache_call[t] IN
       cache' = [cache EXCEPT ![c.key] =
                    ReplaceEntry(@, CachedCredential(c.username, c.password,
                                                     UtcNow(now),
                                                     c.expires_at))]
    /\ cache_call' = [cache_call EXCEPT ![t].pc = "idle",
                                        ![t].result =
                                            CacheResult("None", "", "")]
    /\ UNCHANGED <<managerVars, sessionVars, helper, globalVars>>

\* get_credentials(key), under the lock
get_credentials(t, k) ==
    /\ cache_call[t].pc = "idle"
    /\ LET cached == cache[k]
           done(r) == [NoCacheCall EXCEPT !.op = "get_credentials",
                                          !.key = k, !.result = r]
       IN
       IF cached = None
       THEN /\ cache_call' = [cache_call EXCEPT ![t] =
                                 done(CacheResult("None", "", ""))]
            /\ UNCHANGED cache
       ELSE IF is_expired(cached, now)
       THEN /\ cache' = [cache EXCEPT ![k] = None]
            /\ cache_call' = [cache_call EXCEPT ![t] =
                                 done(CacheResult("None", "", ""))]
       ELSE /\ cached.access_count < MaxAccess
            /\ cache' = [cache EXCEPT ![k] = increment_access(@)]
            /\ cache_call' = [cache_call EXCEPT ![t] =
                                 done(CacheResult("pair", cached.username,
                                                  cached.password))]
    /\ UNCHANGED <<managerVars, sessionVars, helper, globalVars>>

\* is_cached(key), under the lock
is_cached(t, k) ==
    /\ cache_call[t].pc = "idle"
    /\ LET cached == cache[k]
           r == IF cached # None /\ ~is_expired(cached, now)
                THEN "True" ELSE "False"
       IN cache_call' = [cache_call EXCEPT ![t] =
                            [NoCacheCall EXCEPT !.op = "is_cached", !.key = k,
                                                !.result =
                                                    CacheResult(r, "", "")]]
    /\ UNCHANGED <<managerVars, sessionVars, helper, cache, globalVars>>

\* invalidate(key), under the lock
invalidate(t, k) ==
    /\ cache_call[t].pc = "idle"
    /\ cache' = [cache EXCEPT ![k] = None]
    /\ cache_call' = [cache_call EXCEPT ![t] =
                         [NoCacheCall EXCEPT
                             !.op = "invalidate", !.key = k,
                             !.result = CacheResult(IF cache[k] # None
                                                    THEN "True" ELSE "False",
                                                    "", "")]]
    /\ UNCHANGED <<managerVars, sessionVars, helper, globalVars>>

\* cleanup_expired, run by the cleanup thread every five minutes
cleanup_expired ==
    /\ \E k \in Keys : cache[k] # None /\ is_expired(cache[k], now)
    /\ cache' = [k \in Keys |->
                    IF cache[k] # None /\ is_expired(cache[k], now)
                    THEN None ELSE cache[k]]
    /\ UNCHANGED <<managerVars, sessionVars, helper, cache_call, globalVars>>

\* a minute passes
CacheTick ==
    /\ now < Minutes(MaxTime)
    /\ now' = now + Minutes(1)
    /\ UNCHANGED <<current_token, issued, auto_refresh, token_lock,
                   stop_refresh, refresh_thread, refresh_callback, pc, call,
                   result, cleaned>>
    /\ UNCHANGED <<sessionVars, helper, cacheVars, globalVars>>

\* ------------------------------------------------ the global cache
\* a Lock that every thread may take at any time
LockFreeAlways(holder) == TRUE

\* threading.Lock: `with _cache_lock:` passes when no thread holds it
LockFree(holder) == holder = 0

\* the object the next SecureCredentialCache() constructs
NextInstance == Cardinality({i \in Instances : instances[i].created}) + 1

\* a thread calls get_global_cache() or cleanup_global_cache() and enters
\* `with _cache_lock:`
enter_cache_lock(t, op) ==
    /\ global_call[t].pc = "idle"
    /\ LockFree(cache_lock)
    /\ cache_lock' = t
    /\ global_call' = [global_call EXCEPT ![t].pc = "body", ![t].op = op]
    /\ UNCHANGED <<managerVars, sessionVars, helper, cacheVars,
                   global_cache, instances>>

\* get_global_cache: `if _global_cache is None:`; an instance that is
\* there is returned and the lock released
get_global_cache(t) ==
    /\ global_call[t].pc = "body"
    /\ global_call[t].op = "get_global_cache"
    /\ IF global_cache = 0
       THEN /\ global_call' = [global_call EXCEPT ![t].pc = "construct"]
            /\ UNCHANGED cache_lock
       ELSE /\ global_call' = [global_call EXCEPT
                                 ![t].pc = "idle",
                                 ![t].returned = global_cache]
            /\ cache_lock' = 0
    /\ UNCHANGED <<managerVars, sessionVars, helper, cacheVars,
                   global_cache, instances>>

\* get_global_cache: `_global_cache = SecureCredentialCache()`, return it
construct_global_cache(t) ==
    /\ global_call[t].pc = "construct"
    /\ NextInstance \in Instances
    /\ instances' = [instances EXCEPT ![NextInstance] =
                        SecureCredentialCache]
    /\ global_cache' = NextInstance
    /\ global_call' = [global_call EXCEPT ![t].pc = "idle",
                                          ![t].returned = NextInstance]
    /\ cache_lock' = 0
    /\ UNCHANGED <<managerVars, sessionVars, helper, cacheVars>>

\* cleanup_global_cache: `if _global_cache is not None:` and the first
\* statement of shutdown(), `self._shutdown_event.set()`
cleanup_global_cache(t) ==
    /\ global_call[t].pc = "body"
    /\ global_call[t].op = "cleanup_global_cache"
    /\ IF global_cache = 0
       THEN /\ global_call' = [global_call EXCEPT ![t].pc = "idle"]
            /\ cache_lock' = 0
            /\ UNCHANGED instances
       ELSE /\ instances' = [instances EXCEPT
                               ![global_cache].shutdown_event = TRUE]
            /\ global_call' = [global_call EXCEPT ![t].pc = "join"]
            /\ UNCHANGED cache_lock
    /\ UNCHANGED <<managerVars, sessionVars, helper, cacheVars,
                   global_cache>>

\* shutdown: `self._cleanup_thread.join(timeout=5.0)` returns, the thread
\* ended or not
shutdown_join(t) ==
    /\ global_call[t].pc = "join"
    /\ global_call' = [global_call EXCEPT ![t].pc = "cleanup_all"]
    /\ UNCHANGED <<managerVars, sessionVars, helper, cacheVars,
                   global_cache, cache_lock, instances>>

\* shutdown: `self.cleanup_all()` clears every key of the instance
shutdown_cleanup_all(t) ==
    /\ global_call[t].pc = "cleanup_all"
    /\ global_cache # 0
    /\ instances' = [instances EXCEPT ![global_cache].entries = {}]
    /\ global_call' = [global_call EXCEPT ![t].pc = "unset"]
    /\ UNCHANGED <<managerVars, sessionVars, helper, cacheVars,
                   global_cache, cache_lock>>

\* cleanup_global_cache: `_global_cache = None`, the lock is released
unset_global_cache(t) ==
    /\ global_call[t].pc = "unset"
    /\ global_cache' = 0
    /\ cache_lock' = 0
    /\ global_call' = [global_call EXCEPT ![t].pc = "idle"]
    /\ UNCHANGED <<managerVars, sessionVars, helper, cacheVars, instances>>

\* cleanup_worker of instance i: `while not self._shutdown_event.is_set()`
\* ends the thread once the event is set; until then cleanup_expired
\* removes the entries that have expired (here: any of them)
cleanup_worker(i) ==
    /\ instances[i].cleanup_thread = "running"
    /\ IF instances[i].shutdown_event
       THEN instances' = [instances EXCEPT ![i].cleanup_thread = "dead"]
       ELSE \E S \in SUBSET instances[i].entries :
               /\ S # {}
               /\ instances' = [instances EXCEPT ![i].entries = @ \ S]
    /\ UNCHANGED <<managerVars, sessionVars, helper, cacheVars,
                   global_cache, cache_lock, global_call>>

\* a thread caches credentials under key k in the instance that its last
\* get_global_cache() returned
holder_cache_credentials(t, k) ==
    /\ global_call[t].pc = "idle"
    /\ global_call[t].returned # 0
    /\ k \notin instances[global_call[t].returned].entries
    /\ instances' = [instances EXCEPT
                        ![global_call[t].returned].entries = @ \cup {k}]
    /\ UNCHANGED <<managerVars, sessionVars, helper, cacheVars,
                   global_cache, cache_lock, global_call>>

\* ------------------------------------------------------- specifications
\* the TokenManager used by the caller threads
Next ==
    \/ \E t \in Threads : \E op \in TokenOps \cup StopOps : Call(t, op)
    \/ \E t \in Threads : set_refresh_callback(t)
    \/ \E p \in Procs : Acquire(p)
    \/ \E p \in Procs : Body(p)
    \/ \E p \in Procs : Respond(p)
    \/ \E w \in Workers : auto_refresh_worker(w)
    \/ \E t \in Threads : stop_auto_refresh(t)
    \/ \E t \in Threads : JoinReturns(t)
    \/ \E t \in Threads : clear_tokens(t)
    \/ Tick

Spec == Init /\ [][Next]_vars

\* The worker and its stop: foreground callers log in, stop and clean up.
\* A started thread is scheduled: each worker keeps taking its steps
WorkerOps == {"get_valid_token"} \cup StopOps

WorkerNext ==
    \/ \E t \in Threads : \E op \in WorkerOps : Call(t, op)
    \/ \E p \in Procs : Acquire(p)
    \/ \E p \in Procs : Body(p)
    \/ \E p \in Procs : Respond(p)
    \/ \E w \in Workers : auto_refresh_worker(w)
    \/ \E t \in Threads : stop_auto_refresh(t)
    \/ \E t \in Threads : JoinReturns(t)
    \/ \E t \in Threads : clear_tokens(t)
    \/ Tick

FairSpec ==
    /\ Init
    /\ [][WorkerNext]_vars
    /\ \A w \in Workers : WF_vars(auto_refresh_worker(w))

\* one caller thread using the manager through a SessionManager
SessionNext ==
    \/ \E t \in SessionThreads : \E op \in TokenOps \cup StopOps :
          session_call(t, op)
    \/ \E t \in SessionThreads : session_enter(t)
    \/ \E t \in SessionThreads : \E raised \in BOOLEAN : session_exit(t, raised)
    \/ \E t \in SessionThreads : session_exit_returns(t)
    \/ \E p \in SessionThreads \cup Workers : Acquire(p)
    \/ \E p \in SessionThreads \cup Workers : Body(p)
    \/ \E p \in SessionThreads \cup Workers : Respond(p)
    \/ \E w \in Workers : auto_refresh_worker(w)
    \/ \E t \in SessionThreads : stop_auto_refresh(t)
    \/ \E t \in SessionThreads : JoinReturns(t)
    \/ \E t \in SessionThreads : clear_tokens(t)
    \/ Tick

SpecSession == Init /\ [][SessionNext]_vars

\* a caller using McpAuthHelper directly
AuthNext ==
    \/ \E pw \in Passwords : helper_get_bearer_token(pw)
    \/ initiate_auth
    \/ respond_to_auth_challenge
    \/ \E rt \in 1..issued : helper_refresh_token(rt)
    \/ refresh_auth
    \/ helper_clear_tokens
    \/ Tick

SpecAuth == Init /\ [][AuthNext]_vars

\* callers of a SecureCredentialCache and its cleanup thread
CacheNext ==
    \/ \E t \in SingleCaller : \E k \in Keys : \E p \in Passwords :
          \E ttl \in TtlChoices : cache_credentials(t, k, Username, p, ttl)
    \/ \E t \in SingleCaller : cache_store(t)
    \/ \E t \in SingleCaller : \E k \in Keys : get_credentials(t, k)
    \/ \E t \in SingleCaller : \E k \in Keys : is_cached(t, k)
    \/ \E t \in SingleCaller : \E k \in Keys : invalidate(t, k)
    \/ cleanup_expired
    \/ CacheTick

SpecCache == Init /\ [][CacheNext]_vars

\* two callers of one SecureCredentialCache and its cleanup thread; every
\* credential is cached for one minute
SharedTtlChoices == {1}

CacheSharedNext ==
    \/ \E t \in CacheThreads : \E k \in Keys : \E p \in Passwords :
          \E ttl \in SharedTtlChoices :
             cache_credentials(t, k, Username, p, ttl)
    \/ \E t \in CacheThreads : cache_store(t)
    \/ \E t \in CacheThreads : \E k \in Keys : get_credentials(t, k)
    \/ \E t \in CacheThreads : \E k \in Keys : invalidate(t, k)
    \/ cleanup_expired
    \/ CacheTick

SpecCacheShared == Init /\ [][CacheSharedNext]_vars

\* the process-wide cache used by two threads
GlobalOps == {"get_global_cache", "cleanup_global_cache"}

GlobalNext ==
    \/ \E t \in GlobalThreads : \E op \in GlobalOps : enter_cache_lock(t, op)
    \/ \E t \in GlobalThreads : get_global_cache(t)
    \/ \E t \in GlobalThreads : construct_global_cache(t)
    \/ \E t \in GlobalThreads : cleanup_global_cache(t)
    \/ \E t \in GlobalThreads : shutdown_join(t)
    \/ \E t \in GlobalThreads : shutdown_cleanup_all(t)
    \/ \E t \in GlobalThreads : unset_global_cache(t)
    \/ \E i \in Instances : cleanup_worker(i)
    \/ \E t \in GlobalThreads : \E k \in Keys : holder_cache_credentials(t, k)

SpecGlobal == Init /\ [][GlobalNext]_vars

\* ================================================================ claims
AuthErrorKinds == {"AuthenticationError", "InvalidCredentialsError",
                   "ConfigurationError", "TokenExpiredError"}

\* process p runs the body of refresh_if_needed
InRefresh(p) ==
    call[p].nested \/ call[p].op \in {"refresh_if_needed", "force_refresh"}

RECURSIVE Exchanges(_)
Exchanges(S) ==
    IF S = {} THEN 0
    ELSE LET t == CHOOSE x \in S : TRUE
         IN call[t].logins + call[t].refreshes + Exchanges(S \ {t})

\* C1: when all caller threads run get_valid_token() concurrently on a
\* current token that needs refresh, get_bearer_token and refresh_token are
\* invoked exactly once in total across the callers.
C1_ExactlyOneExchange ==
    ( /\ \A t \in Threads : /\ pc[t] = "idle"
                            /\ call[t].op = "get_valid_token"
                            /\ call[t].overlap
                            /\ call[t].had_token = "some"
      /\ \E t \in Threads : call[t].due = "yes" )
    => Exchanges(Threads) = 1

\* C2: a get_valid_token() that finds a current token needing refresh never
\* waits on the lock it holds itself, and it ends having delegated to
\* refresh_if_needed() with that call's result: an access token or an error
\* raised by the provider exchange.
C2_DelegatesAndCompletes ==
    \A t \in Threads :
        (call[t].op = "get_valid_token" /\ call[t].due = "yes") =>
            /\ ~(pc[t] = "lock" /\ token_lock = t)
            /\ pc[t] = "idle" =>
                  /\ call[t].nested
                  /\ result[t].kind \in {"ok"} \cup AuthErrorKinds

C4_ForceRefreshExchanges ==
    \A t \in Threads :
        ( /\ pc[t] = "idle" /\ call[t].op = "force_refresh"
          /\ call[t].had_token = "some" )
        => call[t].logins + call[t].refreshes >= 1

\* C5: a get_valid_token() that finds no current token performs exactly one
\* full login; when the login succeeds it returns the new access token and
\* has started the background worker iff auto_refresh is enabled; when the
\* login raises it has started no worker.
C5_LoginStartsWorker ==
    \A t \in Threads :
        ( /\ pc[t] = "idle" /\ call[t].op = "get_valid_token"
          /\ call[t].had_token = "none" )
        => /\ call[t].logins = 1 /\ call[t].refreshes = 0
           /\ result[t].kind = "ok" =>
                 (result[t].value > 0 /\ call[t].started = auto_refresh)
           /\ result[t].kind # "ok" => ~call[t].started

\* C6: while a current token exists and does not need refresh, a call of
\* get_valid_token() or refresh_if_needed() returns the token's access token
\* and performs no exchange and no callback, the token unchanged.
C6_FreshTokenReturned ==
    [][\A p \in Procs :
        ( /\ pc[p] = "body"
          /\ current_token # None
          /\ Due(current_token, now) = "no"
          /\ pc'[p] # "body" )
        => /\ pc'[p] = Done(p)
           /\ result'[p] = Res("ok", current_token.access_token)
           /\ current_token' = current_token
           /\ issued' = issued
           /\ call'[p].logins = 0 /\ call'[p].refreshes = 0
           /\ call'[p].cbs = 0
      ]_vars

\* C7: the needs-refresh check of a token with an expiry is true exactly
\* when now >= expires_at - refresh_buffer_seconds.
C7_BufferBoundary ==
    (current_token # None /\ current_token.expires_at # None) =>
        needs_refresh(current_token, now) =
            IF now >= current_token.expires_at.t - refresh_buffer_seconds
            THEN "True" ELSE "False"

\* C8: an error other than TokenExpiredError that the helper raises during
\* get_valid_token(), refresh_if_needed() or force_refresh() reaches the
\* caller as the same error kind, and the manager invoked no exchange beyond
\* the failed one (and the refresh whose TokenExpiredError it had caught).
C8_ErrorsPropagate ==
    \A p \in Procs :
        ( /\ pc[p] = Done(p) /\ call[p].op \in TokenOps
          /\ call[p].raised \notin {"none", "TokenExpiredError"} )
        => /\ result[p].kind = call[p].raised
           /\ call[p].logins + call[p].refreshes =
                 IF call[p].expired THEN 2 ELSE 1

C8_Witness ==
    \E t \in Threads :
        /\ pc[t] = "idle" /\ call[t].op = "get_valid_token"
        /\ call[t].raised = "ConfigurationError"
        /\ result[t].kind = "ConfigurationError"
        /\ call[t].logins = 1

C10_Terminated ==
    cleaned => /\ current_token = None
               /\ \A w \in Workers : ~is_alive(w)

\* C11: cleanup_tokens() is total and idempotent for a caller of the
\* manager: a call in progress can always take its next step; when it has
\* returned it raised nothing, the stop event is set and there is no
\* current token; and from the first return on, through every further
\* cleanup_tokens(), that state stays as it is.
C11_CleanupIdempotent ==
    \A t \in SessionThreads :
        /\ (call[t].op = "cleanup_tokens" /\ pc[t] \in {"stop", "join", "clear"})
           => ENABLED (stop_auto_refresh(t) \/ JoinReturns(t) \/ clear_tokens(t))
        /\ (call[t].op = "cleanup_tokens" /\ pc[t] = "idle")
           => /\ result[t].kind = "ok"
              /\ stop_refresh
              /\ current_token = None
        /\ cleaned => (stop_refresh /\ current_token = None)

\* a further cleanup_tokens() on a cleaned-up manager whose worker had been
\* started, about to return
C11_Witness ==
    \E t \in SessionThreads :
        /\ call[t].op = "cleanup_tokens" /\ pc[t] = "clear"
        /\ cleaned
        /\ refresh_thread # 0

\* C12: is_active() is true exactly between __enter__ and __exit__; every
\* __exit__, after a body that returned or raised, calls cleanup_tokens()
\* exactly once, that call runs to its end, and is_active() is false after.
C12_ExitCleansUpOnce ==
    /\ session_active <=> scope.where = "in"
    /\ scope.where \in {"exit", "out"} => scope.cleanups = 1
    /\ \A t \in SessionThreads :
          (scope.where = "exit" /\ pc[t] = "idle")
          => /\ call[t].op = "cleanup_tokens"
             /\ result[t].kind = "ok"
             /\ cleaned
             /\ current_token = None

\* an __exit__ after a body that raised has returned, a worker was started
C12_Witness ==
    /\ scope.where = "out" /\ scope.raised
    /\ ~session_active
    /\ refresh_thread # 0

\* C13: a worker ends only when the stop event was set: an exception raised
\* in an iteration leaves it alive and waiting for its next iteration.
C13_LoopSurvivesException ==
    [][\A w \in Workers :
        (is_alive(w) /\ ~stop_refresh)
        => /\ pc'[w] # "dead"
           /\ (result'[w].kind \notin {"none", "ok"}) => pc'[w] = "w_loop"
      ]_vars

\* a worker that caught an exception waits for its next iteration
C13_Witness ==
    \E w \in Workers :
        /\ pc[w] = "w_loop"
        /\ result[w].kind = "TypeError"
        /\ ~stop_refresh

\* C14: once the stop event is set, every live worker eventually ends, and
\* from then on it begins no refresh and performs no provider exchange,
\* whatever the caller threads are doing.
C14_StopEndsWorker ==
    /\ \A w \in Workers : (stop_refresh /\ is_alive(w)) ~> ~is_alive(w)
    /\ [][\A w \in Workers :
            (stop_refresh /\ is_alive(w))
            => /\ pc'[w] \in {"w_loop", "dead"}
               /\ call'[w].logins = call[w].logins
               /\ call'[w].refreshes = call[w].refreshes
         ]_vars

\* a worker has ended after the stop while a caller waits for its login
C14_Witness ==
    /\ stop_refresh
    /\ \E w \in Workers : pc[w] = "dead"
    /\ \E t \in Threads : pc[t] = "net"

\* C15: after a successful refresh_token() on a client that held a token,
\* the token has the access token, expires_in, expires_at and token type
\* of the response, and the response's refresh token if it carries one,
\* else the refresh token it had.
C15_RefreshUpdatesToken ==
    ( /\ helper.pc = "idle" /\ helper.op = "refresh_token"
      /\ helper.result.kind = "ok"
      /\ helper.prev # None )
    => /\ current_token # None
       /\ current_token.access_token = helper.result.value
       /\ current_token.access_token = issued
       /\ current_token.expires_in =
             Get(helper.resp.ExpiresIn, -1, DefaultExpiresIn)
       /\ current_token.expires_at =
             PlusSeconds(NowAware(helper.at), current_token.expires_in)
       /\ current_token.token_type =
             Get(helper.resp.TokenType, "", "Bearer")
       /\ current_token.refresh_token =
             IF helper.resp.RefreshToken THEN issued
             ELSE helper.prev.refresh_token

\* C16: after a successful get_bearer_token(), direct or through the
\* password challenge, the current token is the TokenResponse built from
\* the response, not the token held before, and its access_token is the
\* string returned.
C16_LoginStoresNewToken ==
    ( /\ helper.pc = "idle" /\ helper.op = "get_bearer_token"
      /\ helper.result.kind = "ok" )
    => /\ current_token # None
       /\ current_token =
             TokenResponse(issued,
                           IF helper.resp.RefreshToken THEN issued ELSE 0,
                           Get(helper.resp.ExpiresIn, -1, DefaultExpiresIn),
                           Get(helper.resp.TokenType, "", "Bearer"),
                           helper.at)
       /\ current_token # helper.prev
       /\ current_token.access_token = helper.result.value

\* a login through the password challenge replaced a token held before
C16_Witness ==
    /\ helper.pc = "idle" /\ helper.op = "get_bearer_token"
    /\ helper.result.kind = "ok"
    /\ helper.challenge = "NEW_PASSWORD_REQUIRED"
    /\ helper.prev # None
    /\ current_token # None

\* the error kind the mapping gives for a failed provider call
ErrorKindOf(resp) ==
    IF resp.kind = "ClientError"
       /\ resp.code \in {"NotAuthorizedException", "UserNotFoundException"}
    THEN "InvalidCredentialsError"
    ELSE IF resp.kind = "ClientError"
            /\ resp.code \in {"ResourceNotFoundException",
                              "InvalidParameterException"}
    THEN "ConfigurationError"
    ELSE "AuthenticationError"

\* C17: a get_bearer_token() that fails on a provider error, an unexpected
\* exception or a client that cannot be constructed raises the kind the
\* mapping gives: InvalidCredentialsError, ConfigurationError or, for all
\* the rest, plain AuthenticationError.
C17_ErrorKinds ==
    ( /\ helper.pc = "idle" /\ helper.op = "get_bearer_token"
      /\ helper.challenge = ""
      /\ helper.result.kind \notin {"none", "ok"} )
    => helper.result.kind = ErrorKindOf(helper.resp)

\* C18: on a challenge, get_bearer_token() sends a challenge response only
\* for NEW_PASSWORD_REQUIRED, with the caller's password as NEW_PASSWORD,
\* and returns the access token of the answer; on any other challenge it
\* sends nothing and raises AuthenticationError.
C18_ChallengeHandling ==
    ( /\ helper.pc = "idle" /\ helper.op = "get_bearer_token"
      /\ helper.challenge # "" )
    => IF helper.challenge = "NEW_PASSWORD_REQUIRED"
       THEN /\ helper.sent = ChallengeResponses(Username, helper.password)
            /\ helper.resp.kind = "AuthenticationResult"
               => /\ helper.result.kind = "ok"
                  /\ current_token # None
                  /\ helper.result.value = current_token.access_token
       ELSE /\ helper.sent = None
            /\ helper.result.kind = "AuthenticationError"

\* C19: a current token always has expires_at set, equal to the time it
\* was last issued or refreshed plus its expires_in.
C19_ExpiresAtDerived ==
    current_token # None
    => /\ current_token.expires_at # None
       /\ current_token.expires_at =
             PlusSeconds(NowAware(helper.at), current_token.expires_in)

\* C20: after cache_credentials(key, u, p, ttl_minutes=0) has returned, the
\* caller's next get_credentials(key) returns None and its next
\* is_cached(key) returns False.
C20_ZeroTtlExpired ==
    [][\A t \in CacheThreads :
        ( /\ cache_call[t].pc = "idle"
          /\ cache_call[t].op = "cache_credentials"
          /\ cache_call[t].ttl_minutes = 0
          /\ cache_call'[t].pc = "idle"
          /\ cache_call'[t].op \in {"get_credentials", "is_cached"}
          /\ cache_call'[t].key = cache_call[t].key )
        => cache_call'[t].result.kind \in {"None", "False"}
      ]_vars

\* C21: get_credentials(key) never returns the pair of an entry whose
\* expires_at has passed.  For an expired entry it returns None and removes
\* the entry; for a live entry it returns that entry's (username, password)
\* and raises its access_count by exactly 1; for an absent key it returns
\* None and changes nothing.  Entries under other keys are never touched.
\* This holds with a second caller and the cleanup thread interleaved.
C21_GetCredentials ==
    [][\A t \in CacheThreads : \A k \in Keys :
        get_credentials(t, k) =>
            LET e == cache[k]
                r == cache_call'[t].result
            IN
            /\ \A j \in Keys \ {k} : cache'[j] = cache[j]
            /\ e = None => r.kind = "None" /\ cache'[k] = None
            /\ (e # None /\ e.expires_at.t <= now)
                  => r.kind = "None" /\ cache'[k] = None
            /\ (e # None /\ e.expires_at.t > now)
                  => /\ r = CacheResult("pair", e.username, e.password)
                     /\ cache'[k] =
                          [e EXCEPT !.access_count = e.access_count + 1]
      ]_vars

\* one caller has read a live entry that the other caller stored, and the
\* other caller's read of an entry whose expiry had passed returned None
C21_Witness ==
    /\ cache_call[1].pc = "idle" /\ cache_call[1].op = "get_credentials"
    /\ cache_call[1].result.kind = "pair"
    /\ cache[cache_call[1].key] # None
    /\ cache[cache_call[1].key].access_count = 1
    /\ cache_call[2].pc = "idle" /\ cache_call[2].op = "get_credentials"
    /\ cache_call[2].key # cache_call[1].key
    /\ cache_call[2].result.kind = "None"
    /\ cache[cache_call[2].key] = None
    /\ now = Minutes(1)

\* C22: cache_credentials(key, u, p) replaces any prior entry under key.
\* The store leaves exactly the entry (u, p) with access_count 0 and the
\* computed expiry under key and leaves the entries under other keys as
\* they were, and the caller's next get_credentials(key) before that expiry
\* returns (u, p), never an earlier pair.
C22_StoreReplaces ==
    [][\A t \in CacheThreads :
        LET c == cache_call[t] IN
        /\ cache_store(t) =>
              /\ cache'[c.key] # None
              /\ cache'[c.key].username = c.username
              /\ cache'[c.key].password = c.password
              /\ cache'[c.key].access_count = 0
              /\ cache'[c.key].expires_at = c.expires_at
              /\ \A j \in Keys \ {c.key} : cache'[j] = cache[j]
        /\ ( /\ c.pc = "idle" /\ c.op = "cache_credentials"
             /\ get_credentials(t, c.key)
             /\ now < c.expires_at.t )
              => cache_call'[t].result =
                    CacheResult("pair", c.username, c.password)
      ]_vars

\* the caller's read of the entry it stored in the second minute returned
\* that entry's pw2 and counted one access, while the other key still holds
\* its pw1 entry
C22_Witness ==
    \E k \in Keys :
        /\ cache_call[1] = [NoCacheCall EXCEPT
                               !.op = "get_credentials", !.key = k,
                               !.result = CacheResult("pair", Username, "pw2")]
        /\ cache[k] # None
        /\ cache[k].cached_at.t = Minutes(1)
        /\ cache[k].access_count = 1
        /\ \A j \in Keys \ {k} : cache[j] # None /\ cache[j].password = "pw1"

\* C23: at any time at most one process-wide cache instance exists.  Of
\* the instances constructed at most one has not been shut down, and
\* _global_cache is unset or one that was constructed.  get_global_cache()
\* constructs an instance only when _global_cache is unset, constructs
\* exactly one, never constructed before, and returns it; otherwise it
\* returns the instance that is set, which is not shut down, and constructs
\* nothing.  cleanup_global_cache() signals the cleanup thread of the
\* instance, evicts all its entries and unsets _global_cache.
C23_LiveInstances == {i \in Instances : instances[i].created
                                        /\ ~instances[i].shutdown_event}

C23_OneGlobalCache ==
    /\ [](/\ Cardinality(C23_LiveInstances) <= 1
          /\ global_cache # 0 => instances[global_cache].created
          /\ global_cache = 0 => C23_LiveInstances = {})
    /\ [][\A t \in GlobalThreads :
           /\ (get_global_cache(t) /\ global_cache # 0)
                 => /\ global_call'[t].returned = global_cache
                    /\ global_cache \in C23_LiveInstances
                    /\ instances' = instances /\ global_cache' = global_cache
           /\ construct_global_cache(t)
                 => /\ global_cache = 0
                    /\ global_cache' # 0
                    /\ ~instances[global_cache'].created
                    /\ instances'[global_cache'] = SecureCredentialCache
                    /\ \A i \in Instances \ {global_cache'} :
                          instances'[i] = instances[i]
                    /\ global_call'[t].returned = global_cache'
           /\ shutdown_cleanup_all(t)
                 => /\ instances'[global_cache].shutdown_event
                    /\ instances'[global_cache].entries = {}
           /\ (unset_global_cache(t) /\ global_call[t].pc = "unset")
                 => /\ instances[global_cache].shutdown_event
                    /\ global_cache' = 0
         ]_vars

\* both threads hold the second instance, constructed after the first one,
\* which held an entry, was shut down by cleanup_global_cache()
C23_Witness ==
    /\ global_cache = 2
    /\ \A t \in GlobalThreads : /\ global_call[t].pc = "idle"
                                 /\ global_call[t].op = "get_global_cache"
                                 /\ global_call[t].returned = 2
    /\ instances[1].shutdown_event
    /\ instances[1].cleanup_thread = "dead"
    /\ instances[1].entries = {}
    /\ instances[2].entries # {}

\* C24: every read of the AuthenticationClient's current token and every
\* write to it made through a TokenManager operation happens while the
\* acting thread holds the manager's token lock: the thread that clears the
\* token in cleanup_tokens holds the lock, the worker that reads the token
\* in its loop holds the lock, and whenever the token changes the lock is
\* held.
C24_LockHeld ==
    [][/\ \A t \in Threads : clear_tokens(t) => token_lock = t
       /\ \A w \in Workers :
             (auto_refresh_worker(w) /\ LoopContinues(stop_refresh))
                => token_lock = w
       /\ current_token' # current_token => token_lock # 0
      ]_vars

\* C25: within one TokenManager at most one provider exchange (login or
\* refresh) is in flight at any moment, whichever process started it, and a
\* process is in its critical section, where the needs-refresh decision is
\* made, or in an exchange only while it holds the token lock: a decision
\* is never made while an exchange of another process is in flight.
C25_OneExchangeInFlight ==
    /\ Cardinality({p \in Procs : pc[p] = "net"}) <= 1
    /\ \A p \in Procs : pc[p] \in {"body", "net"} => token_lock = p
    /\ \A p, q \in Procs :
          (pc[p] = "net" /\ pc[q] = "body") => p = q

\* a login is in flight while another caller waits for the lock and a
\* worker thread is alive
C25_Witness ==
    \E p, q \in Threads : \E w \in Workers :
        /\ pc[p] = "net" /\ call[p].pending = "login"
        /\ p # q /\ pc[q] = "lock"
        /\ is_alive(w)

\* C26: at every moment at most one background refresh worker thread of
\* the TokenManager is alive (started and not ended), after any sequence of
\* get_valid_token, refresh_if_needed, force_refresh, stop_auto_refresh and
\* cleanup_tokens calls from the caller threads, a login that follows a
\* cleanup included; a live worker is the one in _refresh_thread.
C26_OneWorker ==
    /\ Cardinality({w \in Workers : pc[w] \notin {"unstarted", "dead"}}) <= 1
    /\ \A w \in Workers :
          pc[w] \notin {"unstarted", "dead"} => refresh_thread = w

\* the first worker has ended, a cleanup has cleared the token, and the
\* login after it has started the second worker
C26_Witness ==
    /\ pc[101] = "dead"
    /\ pc[102] \notin {"unstarted", "dead"}
    /\ refresh_thread = 102
    /\ \E t \in Threads : /\ pc[t] = "idle"
                           /\ call[t].op = "get_valid_token"
                           /\ call[t].started
    /\ \E t \in Threads : pc[t] = "idle" /\ call[t].op = "cleanup_tokens"

C29_FailedCallKeepsToken ==
    [][( /\ helper.pc # "idle"
         /\ helper'.pc = "idle"
         /\ helper'.result.kind # "ok" )
        => /\ current_token' = helper.prev
           /\ current_token' = current_token
      ]_vars

\* a refresh_token() call on a client holding a token has raised
\* TokenExpiredError and the token held is the one from before the call
C29_Witness ==
    /\ helper.pc = "idle" /\ helper.op = "refresh_token"
    /\ helper.result.kind = "TokenExpiredError"
    /\ helper.prev # None
    /\ current_token = helper.prev

\* C30: with auto_refresh enabled, every successful get_valid_token() that
\* obtained its token by a fresh login, also one made after cleanup_tokens()
\* or stop_auto_refresh() has returned, leaves a live background refresh
\* worker whose stop signal is clear.
C30_LoginLeavesWorker ==
    [][\A t \in Threads :
        ( /\ auto_refresh
          /\ pc[t] = "net"
          /\ call[t].op = "get_valid_token" /\ call[t].pending = "login"
          /\ pc'[t] = "idle" /\ result'[t].kind = "ok" )
        => /\ refresh_thread' # 0
           /\ pc'[refresh_thread'] \notin {"unstarted", "dead"}
           /\ ~stop_refresh'
      ]_vars

====
